---- MODULE Spec2Model ----
(***************************************************************************)
(* Serial control panel (Bubi2001.github.io): the connection controller,   *)
(* the line framer and telemetry decoder of listenForData, and the command *)
(* encoder of sendData, in the two variants the repository holds:          *)
(*   "simple"  src/projects/demo/simple_serial_controller/script.js        *)
(*   "full"    src/unnamed/part_000                                        *)
(* Text is a sequence of one-character strings.  A number is <<v>>, v in   *)
(* units of 10^-FracDigits, and NaN is the empty sequence.                 *)
(*                                                                         *)
(* Specifications:                                                         *)
(*   Spec           ports, connect button, streams and sends               *)
(*   SpecLifecycle  the connection lifecycle, awaited promises settle      *)
(*   SpecApi        the lifecycle with disconnect() invoked at any time    *)
(*   SpecFramer     one inbound text read by two loops, chunked freely     *)
(*   SpecEncode     sends over the control states of an open session       *)
(*   SpecSetpoint   manual and remote setpoint in an open session          *)
(***************************************************************************)
EXTENDS Integers, Sequences, FiniteSets, TLC

(* ------------------------------ bounds -------------------------------- *)
\* ports the user has authorised (navigator.serial.getPorts())
NumPorts == 2
\* read loops alive at once that the model follows
MaxLoops == 2
\* disconnect() calls awaiting reader.cancel() at once
MaxCancelWait == 1
\* sendData calls awaiting writer.write() at once
MaxPendingWrites == 1
\* decimal places a number of the model carries
FracDigits == 2
\* input fields whose text differs from the initial one
MaxEdited == 1
\* LEDs lit at once
MaxLedsOn == 1
\* characters of inbound text the framer harness delivers
MaxStreamLen == 12

(* --------------------------- program constants ------------------------ *)
NumLeds == 8
TiltMin == -45
TiltMax == 45
RpmMin == 0
RpmMax == 50000
ToFixedDigits == 2

NULL == 0
DEAD == -1
CLOSED == -2
ERRORED == -3
ORPHAN == -4
Ports == 1..NumPorts
Variants == {"simple", "full"}

(* ------------------------------- text ---------------------------------- *)
Digits == <<"0", "1", "2", "3", "4", "5", "6", "7", "8", "9">>

DigitSet == {Digits[i] : i \in 1..10}

IsDigit(c) == c \in DigitSet

DigitVal(c) == (CHOOSE i \in 1..10 : Digits[i] = c) - 1

\* the characters String.prototype.trim and \s treat as white space
SpaceSet == {" ", "\n", "\t", "\r"}

IsSpace(c) == c \in SpaceSet

RECURSIVE Pow10(_)
Pow10(n) == IF n = 0 THEN 1 ELSE 10 * Pow10(n - 1)

Unit == Pow10(FracDigits)

NaN == <<>>
Num(v) == <<v>>
IsNaN(x) == x = NaN

\* String.prototype.indexOf(c): 1-based, 0 when absent (JS: -1)
IndexOf(s, c) ==
    IF \E i \in 1..Len(s) : s[i] = c
    THEN CHOOSE i \in 1..Len(s) : s[i] = c /\ \A j \in 1..(i - 1) : s[j] # c
    ELSE 0

\* length of the longest run of characters of class C in s from position i
RECURSIVE RunLen(_, _, _)
RunLen(s, i, C) ==
    IF i <= Len(s) /\ s[i] \in C THEN 1 + RunLen(s, i + 1, C) ELSE 0

RECURSIVE TrailLen(_, _)
TrailLen(s, i) == IF i >= 1 /\ IsSpace(s[i]) THEN 1 + TrailLen(s, i - 1) ELSE 0

\* String.prototype.trim
Trim(s) ==
    LET a == RunLen(s, 1, SpaceSet)
        t == SubSeq(s, a + 1, Len(s))
    IN  SubSeq(t, 1, Len(t) - TrailLen(t, Len(t)))

RECURSIVE DigitsVal(_, _, _)
\* value of the n digits of s that start at position i
DigitsVal(s, i, n) ==
    IF n = 0 THEN 0 ELSE DigitsVal(s, i, n - 1) * 10 + DigitVal(s[i + n - 1])

\* the n digits of s from i as a fraction in units of 10^-FracDigits
\* (digits past FracDigits are dropped)
FracVal(s, i, n) ==
    IF n >= FracDigits
    THEN DigitsVal(s, i, FracDigits)
    ELSE DigitsVal(s, i, n) * Pow10(FracDigits - n)

\* parseFloat: leading white space, an optional sign, digits, an optional
\* point and digits; the longest such prefix; NaN when it holds no digit
ParseFloat(s) ==
    LET a    == RunLen(s, 1, SpaceSet) + 1
        neg  == a <= Len(s) /\ s[a] = "-"
        sgn  == a <= Len(s) /\ s[a] \in {"-", "+"}
        b    == IF sgn THEN a + 1 ELSE a
        n1   == RunLen(s, b, DigitSet)
        dot  == b + n1 <= Len(s) /\ s[b + n1] = "."
        n2   == IF dot THEN RunLen(s, b + n1 + 1, DigitSet) ELSE 0
        mag  == DigitsVal(s, b, n1) * Unit + FracVal(s, b + n1 + 1, n2)
    IN  IF n1 = 0 /\ n2 = 0 THEN NaN
        ELSE Num(IF neg THEN 0 - mag ELSE mag)

RECURSIVE NatToText(_)
NatToText(n) ==
    IF n < 10 THEN <<Digits[n + 1]>>
    ELSE NatToText(n \div 10) \o <<Digits[(n % 10) + 1]>>

RECURSIVE PadFrac(_, _)
\* f written with exactly k digits
PadFrac(f, k) ==
    IF k = 0 THEN <<>> ELSE PadFrac(f \div 10, k - 1) \o <<Digits[(f % 10) + 1]>>

RECURSIVE FracToText(_, _)
\* the k-digit fraction f without its trailing zeros
FracToText(f, k) ==
    IF f = 0 THEN <<>>
    ELSE IF f % 10 = 0 THEN FracToText(f \div 10, k - 1)
    ELSE PadFrac(f, k)

\* Number.prototype.toFixed(d), d <= FracDigits
ToFixed(x, d) ==
    IF IsNaN(x) THEN <<"N", "a", "N">>
    ELSE LET mag == IF x[1] < 0 THEN 0 - x[1] ELSE x[1]
             q   == (mag * Pow10(d) + Unit \div 2) \div Unit
         IN  (IF x[1] < 0 /\ q > 0 THEN <<"-">> ELSE <<>>)
             \o NatToText(q \div Pow10(d)) \o <<".">> \o PadFrac(q % Pow10(d), d)

\* Number-to-string that loses the sign
NumToStringUnsigned(x) ==
    IF IsNaN(x) THEN <<"N", "a", "N">>
    ELSE NatToText((IF x[1] < 0 THEN 0 - x[1] ELSE x[1]) \div Unit)

\* Number-to-string of a template literal `${x}`: the shortest decimal
NumToString(x) ==
    IF IsNaN(x) THEN <<"N", "a", "N">>
    ELSE LET v   == x[1]
             mag == IF v < 0 THEN 0 - v ELSE v
             ip  == NatToText(mag \div Unit)
             fp  == FracToText(mag % Unit, FracDigits)
         IN  (IF v < 0 THEN <<"-">> ELSE <<>>) \o ip
             \o (IF fp = <<>> THEN <<>> ELSE <<".">> \o fp)

(* ------------------------- telemetry decoder --------------------------- *)
\* the field tags of the variant's pattern, in the pattern's order
\*   simple  /A:\s*(-?[\d.]+)/
\*   full    /L:\s*(-?[\d.]+)\s*A:\s*(-?[\d.]+)\s*R:\s*(-?[\d.]+)/
Tags(v) == IF v = "simple" THEN <<"A">> ELSE <<"L", "A", "R">>

NumClass == DigitSet \cup {"."}

CapOf(s, a, b, n) == [ok |-> n > 0, cap |-> SubSeq(s, a, b + n - 1), next |-> b + n]

PutFirst(cap, r) == [ok |-> r.ok, caps |-> <<cap>> \o r.caps]

\* (-?[\d.]+) at position a: whether it matches, the capture, what follows
NumAt(s, a, b) == CapOf(s, a, b, RunLen(s, b, NumClass))

\* the optional sign at a, then the digits
SignAt(s, a) == NumAt(s, a, IF a <= Len(s) /\ s[a] = "-" THEN a + 1 ELSE a)

\* \s*(-?[\d.]+) at position i
CapAt(s, i) == SignAt(s, i + RunLen(s, i, SpaceSet))

RECURSIVE FieldsAt(_, _, _)
\* the fields after the first, whose capture c is given
FieldsAfter(s, tags, c) ==
    IF ~c.ok THEN [ok |-> FALSE, caps |-> <<>>]
    ELSE IF Len(tags) = 1 THEN [ok |-> TRUE, caps |-> <<c.cap>>]
    ELSE PutFirst(c.cap, FieldsAt(s, c.next + RunLen(s, c.next, SpaceSet), Tail(tags)))

\* the pattern's fields `tags` matched at position i, fields separated by \s*
FieldsAt(s, i, tags) ==
    IF ~(i + 1 <= Len(s) /\ s[i] = tags[1] /\ s[i + 1] = ":")
    THEN [ok |-> FALSE, caps |-> <<>>]
    ELSE FieldsAfter(s, tags, CapAt(s, i + 2))

\* the first of the positions 1..n where the pattern's fields match, 0 if none
RECURSIVE FirstHit(_, _, _, _)
FirstHit(v, line, i, n) ==
    IF i > n THEN 0
    ELSE IF FieldsAt(line, i, Tags(v)).ok THEN i
    ELSE FirstHit(v, line, i + 1, n)

CapsAt(v, line, i) == IF i = 0 THEN <<>> ELSE FieldsAt(line, i, Tags(v)).caps

\* line.match(regex): the leftmost match's captures, <<>> when none
Match(v, line) == CapsAt(v, line, FirstHit(v, line, 1, Len(line)))

\* the captures parsed: one number per gauge, <<>> when there is no match or a
\* capture parses to NaN
Readings(xs) == IF \E k \in 1..Len(xs) : IsNaN(xs[k]) THEN <<>> ELSE xs

ParseAll(m) == [k \in 1..Len(m) |-> ParseFloat(m[k])]

\* the reading a trimmed line gives (`if (line)`: none for the empty line)
Decode(v, line) ==
    IF line = <<>> THEN <<>> ELSE Readings(ParseAll(Match(v, line)))

(* ------------------------------ gauges --------------------------------- *)
\* gaugeConfigs: the display range of gauge k
GaugeMin(v, k) == IF v = "simple" \/ k = 2 THEN TiltMin * Unit ELSE RpmMin * Unit
GaugeMax(v, k) == IF v = "simple" \/ k = 2 THEN TiltMax * Unit ELSE RpmMax * Unit

NumGauges(v) == Len(Tags(v))

Clamp(lo, hi, x) == IF x < lo THEN lo ELSE IF x > hi THEN hi ELSE x

\* updateGauge(config, value): the value the gauge then shows
GaugeShown(v, k, x) == Clamp(GaugeMin(v, k), GaugeMax(v, k), x[1])

ZeroGauges(v) == [k \in 1..NumGauges(v) |-> GaugeShown(v, k, Num(0))]

\* the gauges fall back to zero on a line that gives no reading
ShowOrZero(v, g, xs) ==
    IF xs = <<>> THEN ZeroGauges(v) ELSE [k \in 1..NumGauges(v) |-> GaugeShown(v, k, xs[k])]

\* the gauges after a decoded reading (gauge k shows reading k)
ShowReading(v, g, xs) ==
    IF xs = <<>> THEN g ELSE [k \in 1..NumGauges(v) |-> GaugeShown(v, k, xs[k])]

(* ------------------------------- framer -------------------------------- *)
\* what the inner while loop of listenForData gives: the fragment left, the
\* trimmed lines taken out, the readings shown, the gauges
NoLine(buf, g) == [partialData |-> buf, lines |-> <<>>, shown |-> <<>>, gauge |-> g]

PutLine(line, xs, r) ==
    [partialData |-> r.partialData,
     lines       |-> <<line>> \o r.lines,
     shown       |-> (IF xs = <<>> THEN <<>> ELSE <<xs>>) \o r.shown,
     gauge       |-> r.gauge]

RECURSIVE Drain(_, _, _)
\* the loop after `line` was taken out and decoded to xs, `rest` left
DrainDecoded(v, rest, g, line, xs) ==
    PutLine(line, xs, Drain(v, rest, ShowReading(v, g, xs)))

DrainLine(v, rest, g, line) == DrainDecoded(v, rest, g, line, Decode(v, line))

DrainAt(v, buf, g, newlineIndex) ==
    IF newlineIndex = 0 THEN NoLine(buf, g)
    ELSE DrainLine(v, SubSeq(buf, newlineIndex + 1, Len(buf)), g,
                   Trim(SubSeq(buf, 1, newlineIndex - 1)))

\* the inner while loop of listenForData on buffer buf with gauges g
Drain(v, buf, g) == DrainAt(v, buf, g, IndexOf(buf, "\n"))

\* partialData = value: the buffered fragment is dropped on every read
AccumulateDropping(partialData, value) == value

\* partialData += value
Accumulate(partialData, value) == partialData \o value

\* one iteration of the read loop on a chunk that is not end-of-stream
Feed(v, partialData, value, g) == Drain(v, Accumulate(partialData, value), g)

(* --------------------------- command encoder --------------------------- *)
Fields == {"kp", "ki", "kd", "tau", "setpoint"}

LedIndices == 0..(NumLeds - 1)

RECURSIVE Pow2(_)
Pow2(n) == IF n = 0 THEN 1 ELSE 2 * Pow2(n - 1)

RECURSIVE BitOr(_, _)
\* a | b on non-negative integers
BitOr(a, b) ==
    IF a = 0 THEN b
    ELSE IF b = 0 THEN a
    ELSE (IF a % 2 = 1 \/ b % 2 = 1 THEN 1 ELSE 0) + 2 * BitOr(a \div 2, b \div 2)

\* ledMask |= (1 << (index + 1))
SetBitAbove(mask, index) == BitOr(mask, Pow2(index + 1))

\* ledMask |= (1 << index)
SetBit(mask, index) == BitOr(mask, Pow2(index))

RECURSIVE MaskUpTo(_, _)
\* ledStates.forEach((state, index) => { if (state) ledMask |= (1 << index) })
\* over the indices below n
MaskUpTo(leds, n) ==
    IF n = 0 THEN 0
    ELSE IF leds[n - 1] THEN SetBit(MaskUpTo(leds, n - 1), n - 1)
    ELSE MaskUpTo(leds, n - 1)

LedMask(leds) == MaskUpTo(leds, NumLeds)

\* one `key: value` token
Token(key, val) == <<key, ":", " ">> \o val

\* the manual setpoint whatever the mode
ManualSetpointOnly(useRemote, remote, manual) == manual

\* the setpoint a send encodes
EffectiveSetpoint(useRemote, remote, manual) == IF useRemote THEN remote ELSE manual

\* the dataString template of the variant
Encode(v, c) ==
    Token("p", NumToString(c.kp)) \o <<" ">> \o
    Token("i", NumToString(c.ki)) \o <<" ">> \o
    Token("d", NumToString(c.kd)) \o <<" ">> \o
    Token("t", NumToString(c.tau)) \o <<" ">> \o
    Token("s", NumToString(c.setpoint)) \o <<" ">> \o
    (IF v = "full"
     THEN Token("b", c.colorHex) \o <<" ">> \o
          Token("l", NatToText(c.lMotor)) \o <<" ">> \o
          Token("r", NatToText(c.rMotor)) \o <<" ">>
     ELSE <<>>) \o
    Token("g", NatToText(c.ledMask)) \o <<"\n">>

(* ------------------------------- state --------------------------------- *)
VARIABLES
    variant,            \* which of the two scripts runs
    port,               \* NULL, or the SerialPort chosen
    writer,             \* NULL, the port its stream is piped to, or DEAD (no pipe)
    reader,             \* NULL, the port piped into its stream, DEAD (no pipe),
                        \* CLOSED or ERRORED (its stream has ended)
    availablePorts,     \* how many ports getPorts() listed
    ledStates, leftMotorOn, rightMotorOn, remoteSetpoint, useRemoteSetpoint,
    sendDataTimeout,    \* whether the debounce timer is armed
    inputs,             \* the text of the kp, ki, kd, tau and setpoint inputs
    rgbColor,           \* rgbColorPicker.value
    portSelector,       \* portSelector.value: NULL for "", else the port chosen
    selectorDisabled, refreshDisabled, connectDisabled,
    statusText, connected,      \* what updateStatus last pushed
    gauge,              \* the value each gauge shows
    pstate,             \* SerialPort state of each port
    rLocked, wLocked,   \* whether port.readable / port.writable is locked by a pipe
    loops,              \* the listenForData calls awaiting reader.read()
    cancelWait,         \* disconnect() calls awaiting reader.cancel()
    pendingWrites,      \* sends awaiting writer.write()
    socket,             \* the WebSocket's readyState
    wire,               \* the dataString of the last writer.write
    established,        \* a connect() has completed since the last disconnect() did
    stream, runs        \* framer harness: one inbound text, two chunkings of it

vars == <<variant, port, writer, reader, availablePorts, ledStates, leftMotorOn,
          rightMotorOn, remoteSetpoint, useRemoteSetpoint, sendDataTimeout,
          inputs, rgbColor, portSelector, selectorDisabled, refreshDisabled,
          connectDisabled, statusText, connected, gauge, pstate, rLocked,
          wLocked, loops, cancelWait, pendingWrites, socket, wire,
          established, stream, runs>>

\* the longest fragment a read loop of the model buffers
MaxPartial == 6

StLoad == "Status: Disconnected. Request port access to begin."
StRequesting == "Requesting port access..."
StPortsLoaded == "Status: Ports loaded. Select a port and connect."
StCancelled == "User cancelled or error"
StNoPort == "Error: No port selected."
StOpenErr == "Error: open failed"
StTypeErr == "Error: TypeError"
StConnected == "Status: Connected"
StDisconnected == "Status: Disconnected"
StReadErr == "Read error"
StNotConnected == "Error: Not connected."
StInvalid == "Error: Invalid number in one of the fields."
StSent == "Data sent successfully."
StSendErr == "Send error"
StRemoteOn == "Remote control server connected."
StRemoteOff == "Remote control server disconnected."

\* the program state as one record, for the handlers' straight-line code
Cur ==
    [variant |-> variant, port |-> port, writer |-> writer, reader |-> reader,
     availablePorts |-> availablePorts, ledStates |-> ledStates,
     leftMotorOn |-> leftMotorOn, rightMotorOn |-> rightMotorOn,
     remoteSetpoint |-> remoteSetpoint, useRemoteSetpoint |-> useRemoteSetpoint,
     sendDataTimeout |-> sendDataTimeout, inputs |-> inputs, rgbColor |-> rgbColor,
     portSelector |-> portSelector, selectorDisabled |-> selectorDisabled,
     refreshDisabled |-> refreshDisabled, connectDisabled |-> connectDisabled,
     statusText |-> statusText, connected |-> connected, gauge |-> gauge,
     pstate |-> pstate, rLocked |-> rLocked, wLocked |-> wLocked,
     loops |-> loops, cancelWait |-> cancelWait,
     pendingWrites |-> pendingWrites, socket |-> socket, wire |-> wire,
     established |-> established]

Bounded(t) ==
    /\ Len(t.loops) <= MaxLoops
    /\ \A i \in 1..Len(t.loops) : Len(t.loops[i].partialData) <= MaxPartial
    /\ t.cancelWait <= MaxCancelWait
    /\ t.pendingWrites <= MaxPendingWrites

\* the program's variables take the values of u
Step(u) ==
    /\ Bounded(u)
    /\ variant' = u.variant /\ port' = u.port /\ writer' = u.writer
    /\ reader' = u.reader /\ availablePorts' = u.availablePorts
    /\ ledStates' = u.ledStates /\ leftMotorOn' = u.leftMotorOn
    /\ rightMotorOn' = u.rightMotorOn /\ remoteSetpoint' = u.remoteSetpoint
    /\ useRemoteSetpoint' = u.useRemoteSetpoint
    /\ sendDataTimeout' = u.sendDataTimeout /\ inputs' = u.inputs
    /\ rgbColor' = u.rgbColor /\ portSelector' = u.portSelector
    /\ selectorDisabled' = u.selectorDisabled
    /\ refreshDisabled' = u.refreshDisabled
    /\ connectDisabled' = u.connectDisabled
    /\ statusText' = u.statusText /\ connected' = u.connected
    /\ gauge' = u.gauge /\ pstate' = u.pstate /\ rLocked' = u.rLocked
    /\ wLocked' = u.wLocked
    /\ loops' = u.loops /\ cancelWait' = u.cancelWait
    /\ pendingWrites' = u.pendingWrites /\ socket' = u.socket /\ wire' = u.wire
    /\ established' = u.established

\* the step to the state u a handler leaves
Commit(u) == Step(u) /\ UNCHANGED <<stream, runs>>

(* ------------------------------ handlers ------------------------------- *)
\* updateStatus(text, connected = false)
updateStatus(t, text, conn) == [t EXCEPT !.statusText = text, !.connected = conn]

\* a read loop awaits reader.read() of the reader rd: the live reader of a
\* port, the current reader when that has no pipe (DEAD), or an earlier one
\* that has none (ORPHAN)
Without(ls, rd) == SelectSeq(ls, LAMBDA l : l.rd # rd)

LoopKey(l) == l.rd * (MaxPartial + 1) + Len(l.partialData)

\* loops is kept in the order of LoopKey
InsertLoop(ls, l) ==
    LET k == Cardinality({i \in 1..Len(ls) : LoopKey(ls[i]) <= LoopKey(l)})
    IN  SubSeq(ls, 1, k) \o <<l>> \o SubSeq(ls, k + 1, Len(ls))

\* the variable reader is assigned: the loops of a reader without a pipe that
\* is no longer the current one stay behind
SetReader(t, r) ==
    [t EXCEPT !.reader = r,
              !.loops = [i \in 1..Len(@) |->
                            IF @[i].rd = DEAD THEN [@[i] EXCEPT !.rd = ORPHAN] ELSE @[i]]]

\* the stream of the live reader rd ends: its pending reads are gone from the
\* model, its pipe ends, the variable reader (if it holds rd) sees how
EndReader(t, rd, how) ==
    [t EXCEPT !.loops = Without(@, rd),
              !.rLocked = [p \in Ports |-> IF rd = p THEN FALSE ELSE @[p]],
              !.reader = IF @ = rd THEN how ELSE @]

\* reader.cancel() as far as it acts at once: a live stream closes and its
\* pending reads complete with done (the loops awaiting them break)
CancelReader(t) ==
    IF t.reader \in Ports \cup {DEAD} THEN EndReader(t, t.reader, CLOSED) ELSE t

\* resetControls that resets nothing
ResetNothing(t) == t

\* resetLedControls (simple) / resetControls (full)
resetControls(t) ==
    [t EXCEPT !.ledStates = [i \in LedIndices |-> FALSE],
              !.leftMotorOn = FALSE, !.rightMotorOn = FALSE]

\* disconnect() from `updateStatus('Status: Disconnected')` to its end
DisconnectTail(t) ==
    resetControls(
      [updateStatus(t, StDisconnected, FALSE) EXCEPT
         !.selectorDisabled = FALSE, !.refreshDisabled = FALSE,
         !.gauge = ZeroGauges(t.variant), !.established = FALSE])

\* disconnect() from `if (writer)` to its next await, or to its end
DisconnectAfterCancel(t) ==
    LET t1 == [t EXCEPT !.writer = NULL]
    IN  IF t1.port = NULL THEN DisconnectTail(t1)
        ELSE IF t1.pstate[t1.port] = "opened"
             THEN [t1 EXCEPT !.pstate[t1.port] = "closing"]
             ELSE DisconnectTail([t1 EXCEPT !.port = NULL])

\* disconnect() that does not await reader.cancel()
DisconnectNoAwait(t) == DisconnectAfterCancel(CancelReader(t))

\* disconnect() from its start to its first await, or to its end
disconnect(t) ==
    IF t.reader # NULL
    THEN [CancelReader(t) EXCEPT !.cancelWait = @ + 1]
    ELSE DisconnectAfterCancel(t)

\* the catch block of listenForData
LoopCatch(t) ==
    IF t.port # NULL THEN disconnect(updateStatus(t, StReadErr, FALSE)) ELSE t

\* listenForData from the test of its outer while to `await reader.read()`,
\* with partialData = pd
LoopNext(t, pd) ==
    IF t.port # NULL /\ t.pstate[t.port] = "opened"
    THEN IF t.reader = NULL \/ t.reader = ERRORED THEN LoopCatch(t)
         ELSE IF t.reader = CLOSED THEN t
         ELSE [t EXCEPT !.loops = InsertLoop(@, [rd |-> t.reader, partialData |-> pd])]
    ELSE t

\* listenForData() up to its first await
listenForData(t) == LoopNext(t, <<>>)

\* connect() from `port.readable.pipeTo(...)` on, the port's streams there
ConnectStreams(t, q) ==
    LET t1 == SetReader(t, IF t.rLocked[q] THEN DEAD ELSE q)
        t2 == [t1 EXCEPT !.rLocked[q] = TRUE, !.selectorDisabled = TRUE,
                         !.refreshDisabled = TRUE, !.established = TRUE]
    IN  listenForData(updateStatus(t2, StConnected, TRUE))

\* connect() from the line after `await port.open()` to its end
ConnectResume(t) ==
    IF t.port = NULL THEN updateStatus(t, StTypeErr, FALSE)
    ELSE LET q   == t.port
             wOk == t.pstate[q] = "opened" /\ ~t.wLocked[q]
             t1  == [t EXCEPT !.writer = IF wOk THEN q ELSE DEAD,
                              !.wLocked[q] = @ \/ wOk]
         IN  IF t.pstate[q] # "opened" THEN updateStatus(t1, StTypeErr, FALSE)
             ELSE ConnectStreams(t1, q)

\* connect() without its test of the selection: the first port is taken
ConnectUnchecked(t) ==
    LET t1 == [t EXCEPT !.port = 1]
    IN  IF t.pstate[1] = "closed"
        THEN [t1 EXCEPT !.pstate[1] = "opening"]
        ELSE updateStatus(t1, StOpenErr, FALSE)

\* connect() up to `await port.open()`, or to its end
connect(t) ==
    IF t.portSelector = NULL \/ t.availablePorts = 0
    THEN updateStatus(t, StNoPort, FALSE)
    ELSE LET t1 == [t EXCEPT !.port = t.portSelector]
         IN  IF t.pstate[t1.port] = "closed"
             THEN [t1 EXCEPT !.pstate[t1.port] = "opening"]
             ELSE updateStatus(t1, StOpenErr, FALSE)

\* the connectButton click handler
ConnectClick(t) ==
    IF t.port # NULL /\ t.pstate[t.port] = "opened" THEN disconnect(t) ELSE connect(t)

\* the control state a send encodes
ControlValues(t) ==
    [kp |-> ParseFloat(t.inputs["kp"]), ki |-> ParseFloat(t.inputs["ki"]),
     kd |-> ParseFloat(t.inputs["kd"]), tau |-> ParseFloat(t.inputs["tau"]),
     setpoint |-> EffectiveSetpoint(t.useRemoteSetpoint, t.remoteSetpoint,
                                    ParseFloat(t.inputs["setpoint"])),
     colorHex |-> Tail(t.rgbColor),
     lMotor |-> IF t.leftMotorOn THEN 1 ELSE 0,
     rMotor |-> IF t.rightMotorOn THEN 1 ELSE 0,
     ledMask |-> LedMask(t.ledStates)]

\* the validation loop of the simple variant's sendData
AllValid(t) == \A f \in Fields : ~IsNaN(ParseFloat(t.inputs[f]))

\* whether a send goes on to encode and write
SendGuard(t) == t.port # NULL /\ t.writer # NULL

\* sendData() (simple) / the sendButton click handler (full), up to
\* `await writer.write(dataString)`, or to its end
sendData(t) ==
    IF ~SendGuard(t) THEN updateStatus(t, StNotConnected, FALSE)
    ELSE IF t.variant = "simple" /\ ~AllValid(t) THEN updateStatus(t, StInvalid, FALSE)
    ELSE [t EXCEPT !.wire = Encode(t.variant, ControlValues(t)),
                   !.pendingWrites = @ + 1]

\* sendData() after `await writer.write(dataString)` when the write succeeded
writeResolved(t) == updateStatus([t EXCEPT !.pendingWrites = @ - 1], StSent, TRUE)

\* a rejected write that also tears the session down
WriteRejectedTearsDown(t) ==
    disconnect(updateStatus([t EXCEPT !.pendingWrites = @ - 1], StSendErr, TRUE))

\* the catch block of sendData() when the write rejected
writeRejected(t) == updateStatus([t EXCEPT !.pendingWrites = @ - 1], StSendErr, TRUE)

\* port.close() of p succeeds: the port is closed and its streams end
PortClosed(t, p) ==
    [EndReader(t, p, CLOSED) EXCEPT !.pstate[p] = "closed", !.wLocked[p] = FALSE]

RECURSIVE CatchAll(_, _)
\* the catch block run by n read loops, one after the other
CatchAll(t, n) == IF n = 0 THEN t ELSE CatchAll(LoopCatch(t), n - 1)

\* populatePortSelector() when getPorts() gives n ports
populatePortSelector(t, n) ==
    IF n = 0
    THEN [t EXCEPT !.availablePorts = 0, !.portSelector = NULL,
                   !.selectorDisabled = TRUE, !.connectDisabled = TRUE]
    ELSE [updateStatus(t, StPortsLoaded, FALSE) EXCEPT
             !.availablePorts = n, !.portSelector = 1,
             !.selectorDisabled = FALSE, !.connectDisabled = FALSE]

(* ------------------------------- actions ------------------------------- *)
\* refreshPortsButton click: requestPort() is granted and getPorts() gives the
\* authorised ports, or the request is refused
RefreshPorts ==
    /\ ~refreshDisabled
    /\ \/ Commit(populatePortSelector(updateStatus(Cur, StRequesting, FALSE),
                                      NumPorts))
       \/ Commit(updateStatus(Cur, StCancelled, FALSE))

\* the user picks an option of portSelector
SelectPort ==
    /\ ~selectorDisabled
    /\ \E p \in 1..availablePorts : Commit([Cur EXCEPT !.portSelector = p])

ConnectButtonClick ==
    /\ ~connectDisabled
    /\ Commit(ConnectClick(Cur))

\* port.open() of port p settles
OpenSettle ==
    \E p \in Ports :
      /\ pstate[p] = "opening"
      /\ \/ Commit(ConnectResume([Cur EXCEPT !.pstate[p] = "opened"]))
         \/ Commit(updateStatus([Cur EXCEPT !.pstate[p] = "closed"], StOpenErr, FALSE))

\* a reader.cancel() that a disconnect() awaits settles (either way: .catch)
CancelSettle ==
    /\ cancelWait > 0
    /\ Commit(DisconnectAfterCancel(
                SetReader([Cur EXCEPT !.cancelWait = @ - 1], NULL)))

\* port.close() of port p settles: the port closes, or stays open (.catch)
CloseSettle ==
    \E p \in Ports :
      /\ pstate[p] = "closing"
      /\ \/ Commit(DisconnectTail([PortClosed(Cur, p) EXCEPT !.port = NULL]))
         \/ Commit(DisconnectTail([Cur EXCEPT !.pstate[p] = "opened", !.port = NULL]))

\* the text chunks a port delivers
Chunks(v) ==
    IF v = "simple"
    THEN {<<"A", ":", " ", "1", ".", "5">>, <<"\n">>}
    ELSE {<<"L", ":", "1", "A", ":", "2">>, <<"R", ":", "3", "\n">>}

RemoveAt(ls, i) == SubSeq(ls, 1, i - 1) \o SubSeq(ls, i + 1, Len(ls))

\* a pending reader.read() of loop i completes with a chunk
ReadChunk ==
    \E i \in 1..Len(loops) : \E value \in Chunks(variant) :
      /\ loops[i].rd \in Ports
      /\ pstate[loops[i].rd] = "opened"
      /\ \E f \in {Feed(variant, loops[i].partialData, value, gauge)} :
           Commit(LoopNext([Cur EXCEPT !.loops = RemoveAt(@, i), !.gauge = f.gauge],
                           f.partialData))

\* done is taken for a failed read: every loop of p runs its catch block
ReadDoneAsError(t, p) ==
    CatchAll(EndReader(t, p, ERRORED), Len(SelectSeq(t.loops, LAMBDA l : l.rd = p)))

\* the reads of p's loops complete with done: `if (done) break`
readDone(t, p) == EndReader(t, p, CLOSED)

\* the inbound stream of port p ends: its reads complete with done
StreamEnd ==
    \E p \in Ports :
      /\ pstate[p] = "opened" /\ rLocked[p]
      /\ Commit(readDone(Cur, p))

\* the inbound stream of port p fails: its reads reject, and every loop that
\* awaits one runs its catch block (the port itself stays open)
StreamError ==
    \E p \in Ports :
      /\ pstate[p] = "opened" /\ rLocked[p]
      /\ Commit(CatchAll(EndReader(Cur, p, ERRORED),
                         Len(SelectSeq(loops, LAMBDA l : l.rd = p))))

\* the sendButton click (the full variant has the button)
SendButtonClick ==
    /\ variant = "full"
    /\ Commit(sendData(Cur))

\* controlModeToggle change; the simple variant then sends
ControlModeToggle ==
    LET t == [Cur EXCEPT !.useRemoteSetpoint = ~@]
    IN  Commit(IF variant = "simple" THEN sendData(t) ELSE t)

\* a writer.write() that a send awaits settles
WriteSettle ==
    /\ pendingWrites > 0
    /\ \/ Commit(writeResolved(Cur))
       \/ Commit(writeRejected(Cur))

\* a click on LED indicator i; the simple variant then sends
ledClick(t, i) ==
    LET t1 == [t EXCEPT !.ledStates[i] = ~@]
    IN  IF t.variant = "simple" THEN sendData(t1) ELSE t1

LedClick ==
    \E i \in LedIndices :
      /\ ledStates[i] \/ Cardinality({j \in LedIndices : ledStates[j]}) < MaxLedsOn
      /\ Commit(ledClick(Cur, i))

\* a click on leftMotorButton or rightMotorButton (the full variant has them)
MotorClick ==
    /\ variant = "full"
    /\ \/ Commit([Cur EXCEPT !.leftMotorOn = ~@])
       \/ Commit([Cur EXCEPT !.rightMotorOn = ~@])

\* disconnect() is invoked, whatever the session's state
DisconnectCall == Commit(disconnect(Cur))

(* --------------------------- framer harness ---------------------------- *)
\* One inbound text, delivered to two read loops of one session each, cut
\* into chunks independently.
RunIds == {"a", "b"}

progVars == <<variant, port, writer, reader, availablePorts, ledStates,
              leftMotorOn, rightMotorOn, remoteSetpoint, useRemoteSetpoint,
              sendDataTimeout, inputs, rgbColor, portSelector, selectorDisabled,
              refreshDisabled, connectDisabled, statusText, connected, gauge,
              pstate, rLocked, wLocked, loops, cancelWait, pendingWrites,
              socket, wire, established>>

\* the pieces of text a device sends
StreamTokens(v) ==
    IF v = "simple"
    THEN {<<"A", ":", "-", "5", "0", "\n">>, <<"A", ":", " ", "1", ".", "5">>,
          <<" ", "\n">>}
    ELSE {<<"L", ":", "1", "A", ":", "2", "R", ":", "3", "\n">>,
          <<"L", ":", "1", " ", "A", ":", "2", "R", ":", "3">>, <<" ", "\n">>}

\* the device sends more text
DeviceSends ==
    /\ \E tok \in StreamTokens(variant) :
         /\ Len(stream) + Len(tok) <= MaxStreamLen
         /\ stream' = stream \o tok
    /\ UNCHANGED <<progVars, runs>>

\* the run after an iteration of the read loop that gave f on a chunk of n
\* characters (reads counts the iterations up to 2, cut tells whether one of
\* them ended inside a line)
RunAfter(run, n, f) ==
    [pos |-> run.pos + n, partialData |-> f.partialData,
     lines |-> run.lines \o f.lines, shown |-> run.shown \o f.shown,
     gauge |-> f.gauge, reads |-> IF run.reads = 0 THEN 1 ELSE 2,
     cut |-> run.cut \/ f.partialData # <<>>]

\* reader.read() of run r completes with the next n characters of the text
RunReads ==
    /\ \E r \in RunIds : \E n \in 1..(Len(stream) - runs[r].pos) :
         runs' = [runs EXCEPT ![r] =
                    RunAfter(@, n, Feed(variant, @.partialData,
                                        SubSeq(stream, @.pos + 1, @.pos + n),
                                        @.gauge))]
    /\ UNCHANGED <<progVars, stream>>

(* ---------------------------- specification ---------------------------- *)
Text0 == <<"0">>

\* a read loop of the framer harness before its first read
Run0(v) ==
    [pos |-> 0, partialData |-> <<>>, lines |-> <<>>, shown |-> <<>>,
     gauge |-> ZeroGauges(v), reads |-> 0, cut |-> FALSE]

InitProgram ==
    /\ variant \in Variants
    /\ port = NULL /\ writer = NULL /\ reader = NULL /\ availablePorts = 0
    /\ ledStates = [i \in LedIndices |-> FALSE]
    /\ leftMotorOn = FALSE /\ rightMotorOn = FALSE
    /\ remoteSetpoint = Num(0) /\ useRemoteSetpoint = FALSE
    /\ sendDataTimeout = FALSE
    /\ inputs = [f \in Fields |-> Text0]
    /\ rgbColor = <<"#", "0", "0", "0", "0", "0", "0">>
    /\ portSelector = NULL
    /\ selectorDisabled = FALSE /\ refreshDisabled = FALSE /\ connectDisabled = FALSE
    /\ statusText = StLoad /\ connected = FALSE
    /\ gauge = ZeroGauges(variant)
    /\ pstate = [p \in Ports |-> "closed"]
    /\ rLocked = [p \in Ports |-> FALSE] /\ wLocked = [p \in Ports |-> FALSE]
    /\ loops = <<>> /\ cancelWait = 0 /\ pendingWrites = 0
    /\ socket = "connecting"
    /\ wire = <<>>
    /\ established = FALSE

Init ==
    /\ InitProgram
    /\ stream = <<>> /\ runs = [r \in RunIds |-> Run0(variant)]

Next ==
    \/ RefreshPorts
    \/ SelectPort
    \/ ConnectButtonClick
    \/ OpenSettle
    \/ CancelSettle
    \/ CloseSettle
    \/ ReadChunk
    \/ StreamEnd
    \/ StreamError
    \/ SendButtonClick
    \/ ControlModeToggle
    \/ WriteSettle

Spec == Init /\ [][Next]_vars


NextFramer ==
    \/ DeviceSends
    \/ RunReads

SpecFramer == Init /\ [][NextFramer]_vars

(* ------------------------------- claims -------------------------------- *)
\* C1: chunking invariance of the framer.  Two read loops that have consumed
\* the same inbound text, however it was cut into chunks, have extracted the
\* same trimmed lines, issued the same gauge updates, show the same gauges
\* and buffer the same fragment.
C1_ChunkingInvariance ==
    runs["a"].pos = runs["b"].pos =>
        /\ runs["a"].lines = runs["b"].lines
        /\ runs["a"].shown = runs["b"].shown
        /\ runs["a"].gauge = runs["b"].gauge
        /\ runs["a"].partialData = runs["b"].partialData

\* the same text, two lines of it extracted and a reading shown, read in one
\* chunk by one loop and in several chunks (one ending inside a line) by the
\* other
C1_Witness ==
    /\ runs["a"].pos = runs["b"].pos
    /\ runs["a"].reads = 1 /\ runs["b"].reads = 2
    /\ Len(runs["b"].lines) >= 2
    /\ runs["b"].shown # <<>>
    /\ ~runs["a"].cut /\ runs["b"].cut


(* ------------------------- connection sessions ------------------------- *)
\* no session: none established, none being opened, none being torn down
Closed ==
    /\ ~established
    /\ cancelWait = 0
    /\ \A p \in Ports : pstate[p] \notin {"opening", "closing"}

\* a step that invokes a send
SendInvoked == SendButtonClick \/ (variant = "simple" /\ ControlModeToggle)

\* C2: a send invoked while the connection is Closed reports the
\* not-connected error and performs no write.
C2_SendWhileClosed ==
    [][(Closed /\ SendInvoked) =>
           /\ statusText' = StNotConnected /\ ~connected'
           /\ pendingWrites' = pendingWrites /\ wire' = wire]_vars


\* the port, the buttons, the controls and disconnect() invoked at any time
NextApi ==
    \/ RefreshPorts
    \/ ConnectButtonClick
    \/ OpenSettle
    \/ CancelSettle
    \/ CloseSettle
    \/ WriteSettle
    \/ LedClick
    \/ MotorClick
    \/ DisconnectCall

SpecApi == Init /\ [][NextApi]_vars

\* a closed session that holds nothing: no port, no writer, no reader
NothingHeld == Closed /\ port = NULL /\ writer = NULL /\ reader = NULL

\* the display and the controls as disconnect() leaves them
DisplayReset ==
    /\ statusText = StDisconnected /\ ~connected
    /\ gauge = ZeroGauges(variant)
    /\ ledStates = [i \in LedIndices |-> FALSE]
    /\ ~leftMotorOn /\ ~rightMotorOn
    /\ ~selectorDisabled /\ ~refreshDisabled

\* C3 as stated: disconnect() on an already-closed session changes nothing.
C3_DisconnectNoOp ==
    [][(NothingHeld /\ DisconnectCall) => UNCHANGED vars]_vars

\* C3: disconnect() on an already-closed session cancels no reader and closes
\* no channel (the connection state stays as it is), and runs its reset again:
\* the status reads Disconnected, the gauges show zero, LEDs and motors are
\* off, the selectors are enabled.  It changes nothing where the display
\* and the controls are as a disconnect leaves them, as directly after a
\* completed disconnect.
C3_DisconnectOnClosed ==
    [][(NothingHeld /\ DisconnectCall) =>
           /\ UNCHANGED <<port, writer, reader, pstate, rLocked, wLocked, loops,
                          cancelWait, pendingWrites, wire, established>>
           /\ DisplayReset'
           /\ (DisplayReset => UNCHANGED vars)]_vars

\* disconnect() has run on a session that never opened a port (no port was
\* ever listed, so no connect got past its first test) and in which a write
\* was never made: only there does the status read Disconnected
C3_Witness ==
    /\ NothingHeld /\ DisplayReset
    /\ availablePorts = 0


\* C4: at most one read loop is alive at any time.
C4_OneReadLoop == Len(loops) <= 1


\* the connection lifecycle alone, where every promise the program awaits
\* settles
NextLifecycle ==
    \/ RefreshPorts
    \/ SelectPort
    \/ ConnectButtonClick
    \/ OpenSettle
    \/ CancelSettle
    \/ CloseSettle
    \/ ReadChunk
    \/ StreamEnd
    \/ StreamError

SpecLifecycle ==
    /\ Init /\ [][NextLifecycle]_vars
    /\ WF_vars(OpenSettle) /\ WF_vars(CancelSettle) /\ WF_vars(CloseSettle)

\* port, writer and reader are released
Released == port = NULL /\ writer = NULL /\ reader = NULL

\* the catch block of a read loop has reported the read error and its
\* disconnect() has not completed
ReadErrorReported == statusText = StReadErr

\* Closed, everything released, gauges at zero and toggles off
TornDown ==
    /\ Closed /\ Released
    /\ gauge = ZeroGauges(variant)
    /\ ledStates = [i \in LedIndices |-> FALSE] /\ ~leftMotorOn /\ ~rightMotorOn

\* C5: a failed read in an Open session is reported as a read error (a
\* teardown that completes in the same step has put its own status over it),
\* and the teardown it starts ends in Closed with reader, writer and port
\* released and the display reset.
C5_ReadErrorTearsDown ==
    /\ [][(established /\ StreamError /\ loops' # loops) =>
              (ReadErrorReported' \/ statusText' = StDisconnected)]_vars
    /\ (ReadErrorReported ~> TornDown)


\* a writer.write() rejects
WriteRejects == pendingWrites > 0 /\ Commit(writeRejected(Cur))

\* C6: a rejected write reports the send error and nothing else: port,
\* writer, reader, the read loops and the rest of the session are unchanged,
\* and a send that was possible before is possible after.
C6_WriteErrorKeepsSession ==
    [][WriteRejects =>
           /\ statusText' = StSendErr
           /\ pendingWrites' = pendingWrites - 1
           /\ UNCHANGED <<port, writer, reader, loops, pstate, rLocked, wLocked,
                          cancelWait, established, gauge, ledStates, leftMotorOn,
                          rightMotorOn, inputs, useRemoteSetpoint, remoteSetpoint,
                          selectorDisabled, refreshDisabled, connectDisabled>>
           /\ (SendGuard(Cur) => SendGuard(Cur)')]_vars

\* a write was rejected in an Open session whose read loop is running
C6_Witness ==
    /\ statusText = StSendErr
    /\ established /\ port \in Ports /\ writer = port /\ reader = port
    /\ Len(loops) = 1
    /\ pstate[port] = "opened"


(* ------------------------------ encoding ------------------------------- *)
\* texts an input field may hold: a number, a negative fraction, no number
InputTexts == {Text0, <<"-", "1", ".", "5">>, <<"x">>}

\* values rgbColorPicker may hold
Colors == {<<"#", "0", "0", "0", "0", "0", "0">>, <<"#", "f", "f", "8", "0", "0", "a">>}

\* values remoteSetpoint may hold: parseFloat(data.value) of a message
RemoteValues == {Num(0), Num(0 - 12 * Unit - 1), NaN}

\* a session on port 1 that connect() has established
OpenSession ==
    /\ port = 1 /\ writer = 1 /\ reader = 1
    /\ availablePorts = NumPorts /\ portSelector = 1
    /\ selectorDisabled = TRUE /\ refreshDisabled = TRUE /\ connectDisabled = FALSE
    /\ statusText = StConnected /\ connected = TRUE
    /\ pstate = [p \in Ports |-> IF p = 1 THEN "opened" ELSE "closed"]
    /\ rLocked = [p \in Ports |-> p = 1] /\ wLocked = [p \in Ports |-> p = 1]
    /\ loops = <<[rd |-> 1, partialData |-> <<>>]>>
    /\ cancelWait = 0 /\ pendingWrites = 0 /\ wire = <<>>
    /\ established = TRUE

\* an open session, the controls as the user and the socket may have set
\* them, the debounce timer of the simple variant armed
InitEncode ==
    /\ variant \in Variants
    /\ OpenSession
    /\ gauge = ZeroGauges(variant)
    /\ inputs \in {f \in [Fields -> InputTexts] :
                     Cardinality({k \in Fields : f[k] # Text0}) <= MaxEdited}
    /\ ledStates \in {l \in [LedIndices -> BOOLEAN] :
                        Cardinality({i \in LedIndices : l[i]}) <= MaxLedsOn}
    /\ leftMotorOn \in (IF variant = "full" THEN BOOLEAN ELSE {FALSE})
    /\ rightMotorOn \in (IF variant = "full" THEN BOOLEAN ELSE {FALSE})
    /\ rgbColor \in (IF variant = "full" THEN Colors ELSE {<<"#", "0", "0", "0", "0", "0", "0">>})
    /\ useRemoteSetpoint \in BOOLEAN
    /\ remoteSetpoint \in RemoteValues
    /\ sendDataTimeout = (variant = "simple")
    /\ socket = "open"
    /\ stream = <<>> /\ runs = [r \in RunIds |-> Run0(variant)]

\* the debounce timer fires: sendData() (the simple variant has the timer)
TimerFire ==
    /\ sendDataTimeout
    /\ Commit(sendData([Cur EXCEPT !.sendDataTimeout = FALSE]))

NextEncode ==
    \/ TimerFire
    \/ SendButtonClick
    \/ WriteSettle

SpecEncode == InitEncode /\ [][NextEncode]_vars

\* the keys of a line, in the order of the template
KeyOrder(v) ==
    IF v = "simple" THEN <<"p", "i", "d", "t", "s", "g">>
    ELSE <<"p", "i", "d", "t", "s", "b", "l", "r", "g">>

RECURSIVE UntilLen(_, _, _)
\* how many characters of s from position i come before the next c
UntilLen(s, i, c) == IF i <= Len(s) /\ s[i] # c THEN 1 + UntilLen(s, i + 1, c) ELSE 0

RECURSIVE SplitFrom(_, _, _)
SplitCut(s, i, c, n) ==
    IF i + n > Len(s) THEN <<SubSeq(s, i, i + n - 1)>>
    ELSE <<SubSeq(s, i, i + n - 1)>> \o SplitFrom(s, i + n + 1, c)

\* the pieces of s from position i on that the character c separates
SplitFrom(s, i, c) == SplitCut(s, i, c, UntilLen(s, i, c))

\* the pieces of a line without its last character
Pieces(line) == SplitFrom(SubSeq(line, 1, Len(line) - 1), 1, " ")

\* one line-feed-terminated line of `key: value` tokens, the keys those of
\* the variant, each once, in order; the motor flags 0 or 1
WellFormedPieces(v, ps) ==
    /\ Len(ps) = 2 * Len(KeyOrder(v))
    /\ \A k \in 1..Len(KeyOrder(v)) :
         /\ ps[2 * k - 1] = <<KeyOrder(v)[k], ":">>
         /\ ps[2 * k] # <<>>
         /\ KeyOrder(v)[k] \in {"l", "r"} => ps[2 * k] \in {<<"0">>, <<"1">>}

WellFormed(v, line) ==
    /\ line # <<>> /\ line[Len(line)] = "\n"
    /\ IndexOf(line, "\n") = Len(line)
    /\ WellFormedPieces(v, Pieces(line))

\* the value that follows the k-th key
ValueAt(ps, k) == ps[2 * k]

\* the control values a line parsed back by key gives
ParsedPieces(v, ps) ==
    [kp |-> ParseFloat(ValueAt(ps, 1)), ki |-> ParseFloat(ValueAt(ps, 2)),
     kd |-> ParseFloat(ValueAt(ps, 3)), tau |-> ParseFloat(ValueAt(ps, 4)),
     setpoint |-> ParseFloat(ValueAt(ps, 5)),
     colorHex |-> IF v = "full" THEN ValueAt(ps, 6) ELSE <<>>,
     lMotor |-> IF v = "full" THEN ParseFloat(ValueAt(ps, 7)) ELSE Num(0),
     rMotor |-> IF v = "full" THEN ParseFloat(ValueAt(ps, 8)) ELSE Num(0),
     ledMask |-> ParseFloat(ValueAt(ps, Len(KeyOrder(v))))]

ParseLine(v, line) == ParsedPieces(v, Pieces(line))

\* the control values as numbers and text, what a line is to give back
Expected(v, c) ==
    [kp |-> c.kp, ki |-> c.ki, kd |-> c.kd, tau |-> c.tau, setpoint |-> c.setpoint,
     colorHex |-> IF v = "full" THEN c.colorHex ELSE <<>>,
     lMotor |-> IF v = "full" THEN Num(c.lMotor * Unit) ELSE Num(0),
     rMotor |-> IF v = "full" THEN Num(c.rMotor * Unit) ELSE Num(0),
     ledMask |-> Num(c.ledMask * Unit)]

\* a send has written a line
LineWritten == pendingWrites' = pendingWrites + 1

\* C9: every line written is one line-feed-terminated line of `key: value`
\* tokens separated by single spaces, the keys p, i, d, t, s, (full: b, l, r,)
\* g each once and in this order, the motor flags 0 or 1; parsed back by key
\* it gives the control values that were encoded.
C9_EncodedLine ==
    [][LineWritten =>
           /\ WellFormed(variant, wire')
           /\ ParseLine(variant, wire') = Expected(variant, ControlValues(Cur))]_vars

\* a line was written with a negative fraction in it, an LED lit and, in the
\* full variant, a motor running
C9_Witness ==
    /\ wire # <<>> /\ pendingWrites = 1
    /\ inputs["kp"] = <<"-", "1", ".", "5">>
    /\ \E i \in LedIndices : ledStates[i]
    /\ variant = "full" => leftMotorOn /\ ~rightMotorOn

(* ------------------------------ setpoint ------------------------------- *)
\* an open session with the controls as the page loads them
InitSession ==
    /\ variant \in Variants
    /\ OpenSession
    /\ gauge = ZeroGauges(variant)
    /\ inputs = [f \in Fields |-> Text0]
    /\ ledStates = [i \in LedIndices |-> FALSE]
    /\ leftMotorOn = FALSE /\ rightMotorOn = FALSE
    /\ rgbColor = <<"#", "0", "0", "0", "0", "0", "0">>
    /\ useRemoteSetpoint = FALSE /\ remoteSetpoint = Num(0)
    /\ sendDataTimeout = FALSE
    /\ socket = "open"
    /\ stream = <<>> /\ runs = [r \in RunIds |-> Run0(variant)]

\* the user types text into input field f (the setpoint field is disabled
\* in remote mode); the simple variant arms its debounce timer
InputEdit ==
    \E f \in Fields : \E text \in InputTexts :
      /\ f = "setpoint" => ~useRemoteSetpoint
      /\ \E t \in {[Cur EXCEPT !.inputs[f] = text]} :
           /\ Cardinality({k \in Fields : t.inputs[k] \notin {Text0}}) <= MaxEdited
           /\ Commit([t EXCEPT !.sendDataTimeout = (variant = "simple")])

\* socket.onmessage for a message of type 'setpoint' whose value parses to x
onmessage(t, x) ==
    LET t1 == [t EXCEPT !.remoteSetpoint = x]
        t2 == [t1 EXCEPT !.inputs["setpoint"] = ToFixed(x, ToFixedDigits)]
    IN  IF ~t.useRemoteSetpoint THEN t1
        ELSE IF t.variant = "simple" THEN sendData(t2)
        ELSE t2

\* the socket delivers a setpoint message
SocketMessage ==
    /\ socket = "open"
    /\ \E x \in RemoteValues : Commit(onmessage(Cur, x))

NextSetpoint ==
    \/ InputEdit
    \/ ControlModeToggle
    \/ SocketMessage
    \/ TimerFire
    \/ SendButtonClick
    \/ WriteSettle

SpecSetpoint == InitSession /\ [][NextSetpoint]_vars

\* a setpoint message arrives while the manual setpoint is in use
RemoteUpdateInManualMode == ~useRemoteSetpoint /\ SocketMessage

\* C10: the s value of every line written is the remote setpoint last
\* received if useRemoteSetpoint is true when the line is sent, and the value
\* of the manual setpoint input if it is false; a remote update in manual
\* mode changes neither that input nor the mode, and writes nothing.
C10_SetpointSource ==
    /\ [][LineWritten =>
              ParseLine(variant, wire').setpoint =
                  (IF useRemoteSetpoint' THEN remoteSetpoint'
                   ELSE ParseFloat(inputs'["setpoint"]))]_vars
    /\ [][RemoteUpdateInManualMode =>
              UNCHANGED <<inputs, useRemoteSetpoint, wire, pendingWrites>>]_vars

\* a line was written in manual mode with a manual setpoint that differs from
\* the remote setpoint received before
C10_Witness ==
    /\ pendingWrites = 1 /\ ~useRemoteSetpoint
    /\ remoteSetpoint = Num(0 - 12 * Unit - 1)
    /\ inputs["setpoint"] = <<"-", "1", ".", "5">>
    /\ ParseLine(variant, wire).setpoint = Num(0 - 15 * (Unit \div 10))

\* port.open() fails in a connect(): the pending open of a port rejects, or
\* open() rejects at once because the port chosen is not closed
OpenFails ==
    \/ \E p \in Ports :
         /\ pstate[p] = "opening"
         /\ Commit(updateStatus([Cur EXCEPT !.pstate[p] = "closed"], StOpenErr, FALSE))
    \/ /\ ~connectDisabled
       /\ ~(port # NULL /\ pstate[port] = "opened")
       /\ portSelector # NULL /\ availablePorts # 0
       /\ pstate[portSelector] # "closed"
       /\ Commit(ConnectClick(Cur))

\* C7: a failed open is reported, creates no writer, reader or read loop and
\* is not retried, and leaves the controller in Closed: a send is then
\* rejected as not connected, and a click on the connect button runs
\* connect().
C7_OpenFailure ==
    [][OpenFails =>
           /\ statusText' = StOpenErr /\ ~connected'
           /\ UNCHANGED <<writer, reader, loops, rLocked, wLocked>>
           /\ \A p \in Ports : pstate'[p] = "opening" => pstate[p] = "opening"
           /\ ~SendGuard(Cur)'
           /\ (ConnectClick(Cur) = connect(Cur))']_vars


\* a click on the connect button that calls connect() while no port is
\* selected or no port is listed
ConnectWithoutPort ==
    /\ ~(port # NULL /\ pstate[port] = "opened")
    /\ (portSelector = NULL \/ availablePorts = 0)
    /\ ConnectButtonClick

\* C8: connect() with no port selected or an empty port list reports the
\* no-port error and changes nothing else: no open is attempted, and port,
\* writer and reader keep their values.
C8_ConnectWithoutPort ==
    [][ConnectWithoutPort =>
           /\ statusText' = StNoPort /\ ~connected'
           /\ UNCHANGED <<port, writer, reader, pstate, rLocked, wLocked, loops,
                          cancelWait, pendingWrites, established, availablePorts,
                          portSelector, gauge, ledStates>>]_vars

\* connect() has reported the no-port error, and nothing is held or opening
C8_Witness ==
    /\ statusText = StNoPort
    /\ port = NULL /\ writer = NULL /\ reader = NULL
    /\ \A p \in Ports : pstate[p] = "closed"

(* ------------------------------ LED mask ------------------------------- *)
\* the indicators the user clicks in SpecLeds
ClickedLeds == {1, 3, 7}

\* an open session with every indicator off or every indicator on
InitLeds ==
    /\ variant \in Variants
    /\ OpenSession
    /\ gauge = ZeroGauges(variant)
    /\ inputs = [f \in Fields |-> Text0]
    /\ \E on \in BOOLEAN : ledStates = [i \in LedIndices |-> on]
    /\ leftMotorOn = FALSE /\ rightMotorOn = FALSE
    /\ rgbColor = <<"#", "0", "0", "0", "0", "0", "0">>
    /\ useRemoteSetpoint = FALSE /\ remoteSetpoint = Num(0)
    /\ sendDataTimeout = FALSE
    /\ socket = "open"
    /\ stream = <<>> /\ runs = [r \in RunIds |-> Run0(variant)]

\* a click on one of the indicators of ClickedLeds
LedClickSome == \E i \in ClickedLeds : Commit(ledClick(Cur, i))

NextLeds ==
    \/ LedClickSome
    \/ SendButtonClick
    \/ WriteSettle

SpecLeds == InitLeds /\ [][NextLeds]_vars

\* the indices of the indicators that are on
LitLeds(leds) == {i \in LedIndices : leds[i]}

RECURSIVE SumPow2(_)
\* the sum of 2^i over the indices i of S
SumPow2(S) ==
    IF S = {} THEN 0
    ELSE SumPow2(S \ {CHOOSE i \in S : TRUE}) + Pow2(CHOOSE i \in S : TRUE)

\* the g value of line, as an integer
GOf(v, line) == ParseLine(v, line).ledMask

\* C11: the g value of every line written is the sum of 2^i over exactly the
\* indicators that are on, hence within 0..255; indicators 1 and 3 alone give
\* 10; a click on an indicator changes the mask by that indicator's bit only,
\* and a second click on it restores the mask.
C11_LedMask ==
    /\ [][LineWritten =>
             /\ GOf(variant, wire') = Num(SumPow2(LitLeds(ledStates')) * Unit)
             /\ SumPow2(LitLeds(ledStates')) \in 0..255]_vars
    /\ [](LitLeds(ledStates) = {1, 3} => LedMask(ledStates) = 10)
    /\ [][\A i \in LedIndices :
             ledStates' = [ledStates EXCEPT ![i] = ~@] =>
               /\ LedMask(ledStates') =
                    LedMask(ledStates) + (IF ledStates[i] THEN -Pow2(i) ELSE Pow2(i))
               /\ LedMask([ledStates' EXCEPT ![i] = ~@]) = LedMask(ledStates)]_vars

\* a line was written with exactly indicators 1 and 3 on, its g value 10
C11_Witness ==
    /\ LitLeds(ledStates) = {1, 3}
    /\ pendingWrites > 0
    /\ GOf(variant, wire) = Num(10 * Unit)

(* -------------------------- not-a-number input -------------------------- *)
\* a numeric field of control values c that is not a number
NaNEncoded(c) == \E f \in Fields : IsNaN(c[f])

\* a send whose guard passes
SendAccepted == (TimerFire \/ SendButtonClick) /\ SendGuard(Cur)

\* C12: a send whose kp, ki, kd, tau or effective setpoint (the remote one
\* included) is not a number writes nothing and reports the validation error.
C12_NaNRejected ==
    [][SendAccepted /\ NaNEncoded(ControlValues(Cur)) =>
           /\ pendingWrites' = pendingWrites
           /\ wire' = wire
           /\ statusText' = StInvalid]_vars

(* ------------------------------- decoding ------------------------------- *)
\* the chunks a device sends in SpecDecode: tagged fields and their pieces,
\* an exponent letter, a blank, line ends
TelemetryChunks(v) ==
    IF v = "simple"
    THEN {<<"A", ":">>, <<"-", "1">>, <<".", "5">>, <<"\n">>, <<" ", "\n">>,
          <<"e", "\n">>, <<".", "\n">>}
    ELSE {<<"L", ":", "1">>, <<"A", ":", "2">>, <<"A", ":", ".">>, <<"\n">>,
          <<" ", "\n">>, <<"R", ":", "3", "\n">>, <<"R", ":", "3", "e", "\n">>,
          <<"R", ":", "3", ".", "3", ".", "\n">>}

\* the text up to and including the first line feed of buf, <<>> if none
FirstLine(buf) == SubSeq(buf, 1, IndexOf(buf, "\n"))

\* the last line the device completed (stream records it), given the text
\* buf now buffered
LastLine(buf) == IF IndexOf(buf, "\n") = 0 THEN stream ELSE FirstLine(buf)

\* the pending reader.read() of the session's loop completes with value
ReadValue(value) ==
    /\ Len(loops) = 1
    /\ loops[1].rd \in Ports
    /\ pstate[loops[1].rd] = "opened"
    /\ \E f \in {Feed(variant, loops[1].partialData, value, gauge)} :
         Step(LoopNext([Cur EXCEPT !.loops = RemoveAt(@, 1), !.gauge = f.gauge],
                       f.partialData))
    /\ stream' = LastLine(Accumulate(loops[1].partialData, value))
    /\ UNCHANGED runs

\* the device's text arrives
ReadTelemetry == \E value \in TelemetryChunks(variant) : ReadValue(value)

NextDecode == ReadTelemetry

SpecDecode == InitSession /\ [][NextDecode]_vars

\* a trimmed line that is empty or that the variant's pattern does not match
Skipped(v, line) == line = <<>> \/ FirstHit(v, line, 1, Len(line)) = 0

\* the lines framed when value is read
LinesOf(value) == Feed(variant, loops[1].partialData, value, gauge).lines

\* everything but the read loop's buffer
Controls ==
    <<variant, port, writer, reader, availablePorts, ledStates, leftMotorOn,
      rightMotorOn, remoteSetpoint, useRemoteSetpoint, sendDataTimeout, inputs,
      rgbColor, portSelector, selectorDisabled, refreshDisabled, connectDisabled,
      statusText, connected, pstate, rLocked, wLocked, cancelWait, pendingWrites,
      socket, wire, established>>

\* the read loop is alive on the same reader
LoopAlive == Len(loops') = 1 /\ loops'[1].rd = loops[1].rd

\* C13: a framed line that is empty after trimming or that does not match
\* the variant's pattern updates no gauge, reports no status and changes no
\* state; the read loop stays alive and goes on with the next line.
C13_SkipSilent ==
    [][\A value \in TelemetryChunks(variant) :
          ReadValue(value) /\ LinesOf(value) # <<>> =>
             /\ UNCHANGED Controls
             /\ LoopAlive
             /\ (\A k \in 1..Len(LinesOf(value)) : Skipped(variant, LinesOf(value)[k]))
                   => UNCHANGED gauge]_vars

\* the last line received was not empty and did not match, the gauges still
\* show an earlier reading and the loop awaits the next chunk
C13_Witness ==
    /\ stream # <<>>
    /\ Trim(SubSeq(stream, 1, Len(stream) - 1)) # <<>>
    /\ Skipped(variant, Trim(SubSeq(stream, 1, Len(stream) - 1)))
    /\ gauge # ZeroGauges(variant)
    /\ Len(loops) = 1 /\ loops[1].rd = reader
    /\ statusText = StConnected

\* the characters a field's text is made of in the lines of SpecDecode
FieldChars == DigitSet \cup {".", "-", "e"}

\* whether tag and its colon stand at position i of line
TagAt(line, tag, i) == i + 1 <= Len(line) /\ line[i] = tag /\ line[i + 1] = ":"

\* the positions of line where tag stands
TagPositions(line, tag) == {i \in 1..Len(line) : TagAt(line, tag, i)}

\* the text of the field that starts at position i, blanks before it skipped
FieldFrom(line, i) == SubSeq(line, i, i + RunLen(line, i, FieldChars) - 1)

\* the text of the field tagged at position i
FieldOf(line, i) == FieldFrom(line, i + 2 + RunLen(line, i + 2, SpaceSet))

\* digits with at most one decimal point
Unsigned(s) ==
    /\ \A k \in 1..Len(s) : s[k] \in NumClass
    /\ \E k \in 1..Len(s) : s[k] \in DigitSet
    /\ Cardinality({k \in 1..Len(s) : s[k] = "."}) <= 1

\* a signed decimal number: an optional minus, then digits with at most one
\* decimal point, no exponent
WellFormedNumber(s) ==
    s # <<>> /\ Unsigned(IF s[1] = "-" THEN Tail(s) ELSE s)

\* a tagged field of line that is not a well-formed number
Malformed(v, line) ==
    \E k \in 1..NumGauges(v) : \E i \in TagPositions(line, Tags(v)[k]) :
       ~WellFormedNumber(FieldOf(line, i))

\* either no gauge changes or every gauge shows its reading of line
AllOrNone(v, line) ==
    \/ UNCHANGED gauge
    \/ /\ Len(Match(v, line)) = NumGauges(v)
       /\ \A k \in 1..NumGauges(v) :
            gauge'[k] = GaugeShown(v, k, ParseFloat(Match(v, line)[k]))

\* C14: a framed line in which a tagged field is not a well-formed signed
\* decimal number gives no reading; every framed line updates either all the
\* gauges of the variant from that line or none.
C14_AllOrNothing ==
    [][\A value \in TelemetryChunks(variant) :
          ReadValue(value) /\ LinesOf(value) # <<>> =>
             /\ AllOrNone(variant, LinesOf(value)[1])
             /\ Malformed(variant, LinesOf(value)[1]) => UNCHANGED gauge]_vars

(* ------------------------ remote setpoint message ----------------------- *)
\* the socket delivers a setpoint message of value x
MessageOf(x) == socket = "open" /\ Commit(onmessage(Cur, x))

\* the fields other than the setpoint hold numbers
GainsValid == \A f \in Fields \ {"setpoint"} : ~IsNaN(ParseFloat(inputs[f]))

\* C15: in both variants, with the session open, a setpoint message in remote
\* mode results in one line written whose s value is the message's value; in
\* manual mode it causes no send.
C15_RemoteMessageSends ==
    [][\A x \in RemoteValues :
          MessageOf(x) /\ SendGuard(Cur) /\ GainsValid /\ ~IsNaN(x) =>
             IF useRemoteSetpoint
             THEN LineWritten /\ ParseLine(variant, wire').setpoint = x
             ELSE pendingWrites' = pendingWrites /\ wire' = wire]_vars

(* ----------------------------- end of stream ---------------------------- *)
\* the inbound stream of port p ends
StreamEndOf(p) == pstate[p] = "opened" /\ rLocked[p] /\ Commit(readDone(Cur, p))

\* the loops other than those reading p
OtherLoops(ls, p) == SelectSeq(ls, LAMBDA l : l.rd # p)

\* C16: when a read completes with done the loop exits cleanly: no status
\* is reported, no catch block runs (nothing is torn down), and the loop
\* does not read again.
C16_CleanEnd ==
    [][\A p \in Ports :
          StreamEndOf(p) =>
             /\ statusText' = statusText /\ connected' = connected
             /\ port' = port /\ writer' = writer /\ pstate' = pstate
             /\ cancelWait' = cancelWait /\ gauge' = gauge
             /\ loops' = OtherLoops(loops, p)]_vars

\* the stream of the established session has ended with no disconnect under
\* way: the session's loop is gone, the status still says connected
C16_Witness ==
    /\ established /\ port \in Ports /\ writer = port /\ reader = CLOSED
    /\ pstate[port] = "opened"
    /\ loops = <<>> /\ cancelWait = 0
    /\ statusText = StConnected

(* --------------------------- fragment carry-over ------------------------ *)
\* the pending reader.read() of loop i completes with value
ReadChunkOf(i, value) ==
    /\ loops[i].rd \in Ports
    /\ pstate[loops[i].rd] = "opened"
    /\ \E f \in {Feed(variant, loops[i].partialData, value, gauge)} :
         Commit(LoopNext([Cur EXCEPT !.loops = RemoveAt(@, i), !.gauge = f.gauge],
                         f.partialData))

\* the fragment loop i holds after reading value
FragmentOf(i, value) == Feed(variant, loops[i].partialData, value, gauge).partialData

\* the loops of ls that hold the fragment x
Holding(ls, x) == {i \in 1..Len(ls) : ls[i].partialData = x}

\* a loop was started, with an empty buffer
StartedEmpty ==
    \A i \in 1..Len(loops') :
       Cardinality(Holding(loops', loops'[i].partialData)) =
         Cardinality(Holding(loops, loops'[i].partialData))
           + (IF loops'[i].partialData = <<>> THEN 1 ELSE 0)

\* C17: every loop starts with an empty buffer, and a loop that holds a
\* fragment of one connection's text never goes on to read the text of
\* another connection.
C17_FreshBuffer ==
    /\ [][Len(loops') > Len(loops) => StartedEmpty]_vars
    /\ [][\A i \in 1..Len(loops) : \A value \in Chunks(variant) :
             ReadChunkOf(i, value) /\ FragmentOf(i, value) # <<>>
             /\ port # NULL /\ reader \in Ports
               => reader = loops[i].rd]_vars

(* ------------------------- sends outside of Open ------------------------ *)
\* connect() awaits port.open()
Opening == port # NULL /\ pstate[port] = "opening"

\* disconnect() awaits reader.cancel() or port.close()
TearingDown == cancelWait > 0 \/ \E p \in Ports : pstate[p] = "closing"

\* C18: a send invoked while connect() awaits the open, or after disconnect()
\* has begun (while it awaits the reader cancel or the close), reports
\* not-connected and writes nothing.
C18_WriteOnlyWhileOpen ==
    [][SendInvoked /\ (Opening \/ TearingDown) =>
           /\ statusText' = StNotConnected
           /\ pendingWrites' = pendingWrites
           /\ wire' = wire]_vars

(* -------------------------- reading while Open -------------------------- *)
\* a loop awaits a read on a live reader
LoopReading == \E i \in 1..Len(loops) : loops[i].rd \in Ports

\* C19: whenever port and writer are set, so that a send is accepted, a read
\* loop is active.
C19_ReadingWhileOpen == SendGuard(Cur) => LoopReading

(* ----------------------------- teardown order --------------------------- *)
\* the writer reference is released
WriterReleased == writer # NULL /\ writer' = NULL

\* port.close() of port p is started
CloseStarted(p) == pstate[p] # "closing" /\ pstate'[p] = "closing"

\* port.close() of port p has settled
CloseSettled(p) == pstate[p] = "closing" /\ pstate'[p] # "closing"

\* the display is reset by the end of disconnect()
DisplayResetStep ==
    /\ statusText' = StDisconnected
    /\ statusText # StDisconnected \/ gauge' # gauge \/ ledStates' # ledStates

\* at most one loop reads each port, so that a failing stream runs one catch
\* block and with it one disconnect()
OneCatch == \A p \in Ports : Cardinality({i \in 1..Len(loops) : loops[i].rd = p}) <= 1

\* C20: in a disconnect the writer is released only when the reader cancel
\* has settled, the channel close is started only with the writer released,
\* and a disconnect of an open channel resets the display only when a close
\* has settled (never in the step that starts the close).
C20_TeardownOrder ==
    /\ [][WriterReleased /\ reader # NULL => cancelWait' = cancelWait - 1]_vars
    /\ [][\A p \in Ports : CloseStarted(p) => writer' = NULL]_vars
    /\ [][DisplayResetStep /\ port # NULL /\ pstate[port] = "opened" /\ OneCatch =>
             \E p \in Ports : CloseSettled(p)]_vars

\* the teardown of an established session has released reader and writer
\* and awaits the close, the display still showing the session
C20_Witness ==
    /\ established /\ port \in Ports /\ pstate[port] = "closing"
    /\ writer = NULL /\ reader = NULL /\ cancelWait = 0
    /\ statusText # StDisconnected
    /\ gauge # ZeroGauges(variant)

(* --------------------------- best-effort cleanup ------------------------ *)
\* C21: a started disconnect, whose reader cancel and channel close settle
\* either way, reaches Closed: reader, writer and port released and the
\* display reset.
C21_BestEffortCleanup == TearingDown ~> (Released /\ DisplayReset)

(* ---------------------------- status indicator ------------------------- *)
\* socket.onopen
onopen(t) == updateStatus([t EXCEPT !.socket = "open"], StRemoteOn, TRUE)

\* socket.onclose
onclose(t) == updateStatus([t EXCEPT !.socket = "closed"], StRemoteOff, FALSE)

\* the remote-feed socket opens
SocketOpen == socket = "connecting" /\ Commit(onopen(Cur))

\* the remote-feed socket closes, or fails to open
SocketClose == socket \in {"connecting", "open"} /\ Commit(onclose(Cur))

NextStatus ==
    \/ RefreshPorts
    \/ ConnectButtonClick
    \/ OpenSettle
    \/ CancelSettle
    \/ CloseSettle
    \/ SocketOpen
    \/ SocketClose
    \/ SendButtonClick
    \/ ControlModeToggle
    \/ WriteSettle

SpecStatus == Init /\ [][NextStatus]_vars

\* the serial session is Open
SessionOpen == SendGuard(Cur) /\ pstate[port] = "opened"

\* C22: whenever the indicator shows connected the serial session is Open,
\* and the indicator turns to connected only when an open succeeds, whatever
\* the remote-feed socket and the sends do.
C22_IndicatorIsSession ==
    /\ [](connected => SessionOpen)
    /\ [][~connected /\ connected' => ~established /\ established']_vars

(* ------------------------- gauges after teardown ------------------------ *)
\* C23: from the end of a disconnect to the next successful connect every
\* gauge shows zero: no chunk read later updates a gauge.
C23_GaugesStayZero == ~established => gauge = ZeroGauges(variant)

(* ----------------------- manual field in remote mode -------------------- *)
\* what a send leaves: the line written and the status reported
SendOutcome(t) == <<t.wire, t.pendingWrites, t.statusText, t.connected>>

\* the program with the text m left in the manual setpoint field
WithManual(m) == [Cur EXCEPT !.inputs["setpoint"] = m]

\* C24: in remote mode a send has the same outcome (the same line written
\* or the same error reported) whatever text the manual setpoint field holds.
C24_ManualFieldIgnored ==
    useRemoteSetpoint =>
       \A m \in InputTexts :
          SendOutcome(sendData(WithManual(m))) = SendOutcome(sendData(Cur))

====
